---------------------------- MODULE Spec2Model ----------------------------
(***************************************************************************)
(* Model of src/app.py: the weighted interval scheduler                    *)
(* (weighted_interval_scheduling) executed step by step, and the task      *)
(* table with the add / edit / delete / schedule request handlers.         *)
(*                                                                         *)
(* Python lists are TLA+ sequences; Python indices are kept 0-based, so    *)
(* the element at Python index k of list s is s[k + 1].  A Task is a       *)
(* record [id, start_time, end_time, profit]; the display name is opaque   *)
(* to every handler and to the scheduler and is not carried.               *)
(***************************************************************************)
EXTENDS Integers, Sequences, FiniteSets

VARIABLES
    tasks,          \* the list handed to weighted_interval_scheduling
    pc,             \* position inside weighted_interval_scheduling / request
    tasks_sorted,   \* local: tasks sorted by end_time
    p,              \* local: predecessor indices
    dp,             \* local: DP table
    choose,         \* local: decisions recorded by the DP loop
    i,              \* local: loop index (DP loop, then backtracking loop)
    selected,       \* local / result: the selected tasks
    total_profit,   \* result: dp[-1]
    previous,       \* the input and result of the caller's previous call
    table,          \* the tasks table: id -> row
    next_id,        \* the AUTOINCREMENT counter of the tasks table
    flash           \* the message flashed by the last request

vars == <<tasks, pc, tasks_sorted, p, dp, choose, i, selected, total_profit,
          previous, table, next_id, flash>>

-----------------------------------------------------------------------------
(* Bounds of the model. *)

MaxTasks == 3       \* longest input list of the scheduler
MaxTime == 2        \* times range over 0..MaxTime
MaxProfit == 2      \* profits range over -1..MaxProfit
MaxShuffled == 2    \* longest input list that is scheduled twice
MaxId == 2          \* rows ever inserted into the tasks table

Times == 0..MaxTime
\* One negative profit stands for every loss: a profit enters the
\* computation only through include_profit and its comparison with
\* exclude_profit, which a negative profit loses whatever its size.
Profits == (0 - 1)..MaxProfit

-----------------------------------------------------------------------------
(* Python list helpers. *)

\* s[k] for a Python index k that is in range (negative indices wrap).
PyGet(s, k) == IF k < 0 THEN s[k + Len(s) + 1] ELSE s[k + 1]

\* s[k] raises IndexError unless -len(s) <= k < len(s).
PyIndexOK(s, k) == (0 - Len(s)) <= k /\ k < Len(s)

\* s with Python index k (0 <= k < len(s)) assigned v.
PySet(s, k, v) == [s EXCEPT ![k + 1] = v]

\* Mutant of Reverse: the list is returned as the backtracking built it.
Reverse_omitted(s) == s

\* selected.reverse()
RECURSIVE Reverse(_)
Reverse(s) == IF s = <<>> THEN <<>> ELSE Reverse(Tail(s)) \o <<Head(s)>>

-----------------------------------------------------------------------------
(* weighted_interval_scheduling: the pieces of the computation. *)

\* Mutant of sorted_by_end_time: the sort key is start_time.
RECURSIVE sorted_by_start_time(_)
sorted_by_start_time(ts) ==
    IF ts = <<>> THEN <<>>
    ELSE LET init == sorted_by_start_time(SubSeq(ts, 1, Len(ts) - 1))
             x == ts[Len(ts)]
             k == Cardinality({j \in 1..Len(init) : init[j].start_time <= x.start_time})
         IN SubSeq(init, 1, k) \o <<x>> \o SubSeq(init, k + 1, Len(init))

\* sorted(tasks, key=lambda t: t.end_time): a stable sort, so each element
\* goes after every earlier element whose end_time is not greater.
RECURSIVE sorted_by_end_time(_)
sorted_by_end_time(ts) ==
    IF ts = <<>> THEN <<>>
    ELSE LET init == sorted_by_end_time(SubSeq(ts, 1, Len(ts) - 1))
             x == ts[Len(ts)]
             k == Cardinality({j \in 1..Len(init) : init[j].end_time <= x.end_time})
         IN SubSeq(init, 1, k) \o <<x>> \o SubSeq(init, k + 1, Len(init))

\* end_times = [task.end_time for task in tasks_sorted]
end_times_of(ts) == [k \in 1..Len(ts) |-> ts[k].end_time]

\* Mutant of bisect_loop: the search of bisect_left, whose insertion point
\* is to the left of the elements equal to x.
RECURSIVE bisect_loop_left(_, _, _, _)
bisect_loop_left(a, x, lo, hi) ==
    IF lo < hi
    THEN LET mid == (lo + hi) \div 2
         IN IF PyGet(a, mid) < x
            THEN bisect_loop_left(a, x, mid + 1, hi)
            ELSE bisect_loop_left(a, x, lo, mid)
    ELSE lo

\* bisect.bisect_right(a, x): binary search over lo..hi for the insertion
\* point to the right of every element <= x.
RECURSIVE bisect_loop(_, _, _, _)
bisect_loop(a, x, lo, hi) ==
    IF lo < hi
    THEN LET mid == (lo + hi) \div 2
         IN IF x < PyGet(a, mid)
            THEN bisect_loop(a, x, lo, mid)
            ELSE bisect_loop(a, x, mid + 1, hi)
    ELSE lo

bisect_right(a, x) == bisect_loop(a, x, 0, Len(a))

\* Mutant of predecessors: the task just before is taken as the predecessor.
predecessors_previous(ts) == [k \in 1..Len(ts) |-> k - 2]

\* Mutant of predecessors: the "- 1" is forgotten.
predecessors_off_by_one(ts) ==
    LET end_times == [k \in 1..Len(ts) |-> ts[k].end_time]
    IN [k \in 1..Len(ts) |-> bisect_right(end_times, ts[k].start_time)]

\* The loop building p: p[i] = bisect_right(end_times, start_time of i) - 1.
predecessors(ts) ==
    LET end_times == end_times_of(ts)
    IN [k \in 1..Len(ts) |-> bisect_right(end_times, ts[k].start_time) - 1]

\* [0] * n and [False] * n
zeros(n) == [k \in 1..n |-> 0]
falses(n) == [k \in 1..n |-> FALSE]

\* The list lookups made at index k: p[k], and dp[p[k]] when p[k] >= 0.
lookups_ok(pp, d, k) ==
    /\ PyIndexOK(pp, k)
    /\ PyGet(pp, k) >= 0 => PyIndexOK(d, PyGet(pp, k))

\* Mutant of include_profit: the profit of the predecessor's prefix is
\* left out.
include_profit_alone(ts, pp, d, k) == PyGet(ts, k).profit

include_profit(ts, pp, d, k) ==
    PyGet(ts, k).profit + (IF PyGet(pp, k) >= 0 THEN PyGet(d, PyGet(pp, k)) ELSE 0)

exclude_profit(d, k) == IF k > 0 THEN PyGet(d, k - 1) ELSE 0

\* Mutant of dp_include_wins: a tie includes.
dp_include_on_tie(ts, pp, d, k) == include_profit(ts, pp, d, k) >= exclude_profit(d, k)

\* The comparison of the DP loop.
dp_include_wins(ts, pp, d, k) == include_profit(ts, pp, d, k) > exclude_profit(d, k)

\* Mutant of backtrack_include_wins: a tie includes.
backtrack_include_on_tie(ts, pp, d, k) == include_profit(ts, pp, d, k) >= exclude_profit(d, k)

\* The comparison recomputed by the backtracking loop.
backtrack_include_wins(ts, pp, d, k) == include_profit(ts, pp, d, k) > exclude_profit(d, k)

\* One iteration of the DP loop at index k: the new dp and choose.
dp_iteration(ts, pp, d, ch, k) ==
    IF dp_include_wins(ts, pp, d, k)
    THEN [dp |-> PySet(d, k, include_profit(ts, pp, d, k)), choose |-> PySet(ch, k, TRUE)]
    ELSE [dp |-> PySet(d, k, exclude_profit(d, k)), choose |-> PySet(ch, k, FALSE)]

\* Mutant of backtrack_iteration: after an include the loop steps to k - 1
\* instead of jumping to p[k].
backtrack_iteration_step_back(ts, pp, d, sel, k) ==
    IF include_profit(ts, pp, d, k) > exclude_profit(d, k)
    THEN [selected |-> Append(sel, PyGet(ts, k)), i |-> k - 1]
    ELSE [selected |-> sel, i |-> k - 1]

\* One iteration of the backtracking loop at index k: the new selected and i.
backtrack_iteration(ts, pp, d, sel, k) ==
    IF backtrack_include_wins(ts, pp, d, k)
    THEN [selected |-> Append(sel, PyGet(ts, k)), i |-> PyGet(pp, k)]
    ELSE [selected |-> sel, i |-> k - 1]

-----------------------------------------------------------------------------
(* weighted_interval_scheduling as one call (used by generate_schedule and  *)
(* to compare the results of two calls).                                    *)

RECURSIVE dp_loop(_, _, _, _, _)
dp_loop(ts, pp, d, ch, k) ==
    IF k < Len(ts)
    THEN LET r == dp_iteration(ts, pp, d, ch, k)
         IN dp_loop(ts, pp, r.dp, r.choose, k + 1)
    ELSE [dp |-> d, choose |-> ch]

RECURSIVE backtrack_loop(_, _, _, _, _)
backtrack_loop(ts, pp, d, sel, k) ==
    IF k >= 0
    THEN LET r == backtrack_iteration(ts, pp, d, sel, k)
         IN backtrack_loop(ts, pp, d, r.selected, r.i)
    ELSE sel

weighted_interval_scheduling(input) ==
    IF input = <<>>
    THEN [selected |-> <<>>, total_profit |-> 0]
    ELSE LET ts == sorted_by_end_time(input)
             n == Len(ts)
             pp == predecessors(ts)
             r == dp_loop(ts, pp, zeros(n), falses(n), 0)
         IN [selected |-> Reverse(backtrack_loop(ts, pp, r.dp, <<>>, n - 1)),
             total_profit |-> PyGet(r.dp, 0 - 1)]

-----------------------------------------------------------------------------
(* The scheduler executed step by step on one input list. *)

\* A well-formed task: end_time > start_time, any profit.
Shapes == [start_time : Times, end_time : Times, profit : Profits]
ValidShapes == {t \in Shapes : t.end_time > t.start_time}

\* The input lists: every list of at most MaxTasks well-formed tasks; the
\* id of a task names the list element (its position in this list).
WithIds(s) ==
    [k \in 1..Len(s) |-> [id |-> k, start_time |-> s[k].start_time,
                          end_time |-> s[k].end_time, profit |-> s[k].profit]]

NoTable == [k \in {} |-> 0]

InitCall(longest) ==
    /\ \E n \in 0..longest : \E s \in [1..n -> ValidShapes] : tasks = WithIds(s)
    /\ pc = "start"
    /\ tasks_sorted = <<>>
    /\ p = <<>>
    /\ dp = <<>>
    /\ choose = <<>>
    /\ i = 0
    /\ selected = <<>>
    /\ total_profit = 0
    /\ previous = <<>>
    /\ table = NoTable
    /\ next_id = 1
    /\ flash = "none"

Init == InitCall(MaxTasks)

app_vars == <<previous, table, next_id, flash>>

\* if not tasks: return [], 0
ReturnEmpty ==
    /\ pc = "start"
    /\ tasks = <<>>
    /\ selected' = <<>>
    /\ total_profit' = 0
    /\ pc' = "done"
    /\ UNCHANGED <<tasks, tasks_sorted, p, dp, choose, i, app_vars>>

\* The sort, end_times, the loop building p, and the fresh dp and choose.
Prepare ==
    /\ pc = "start"
    /\ tasks # <<>>
    /\ tasks_sorted' = sorted_by_end_time(tasks)
    /\ p' = predecessors(tasks_sorted')
    /\ dp' = zeros(Len(tasks))
    /\ choose' = falses(Len(tasks))
    /\ i' = 0
    /\ pc' = "dp"
    /\ UNCHANGED <<tasks, selected, total_profit, app_vars>>

\* One iteration of "for i in range(n)"; after the last one the
\* backtracking loop starts at i = n - 1.
DPStep ==
    /\ pc = "dp"
    /\ IF lookups_ok(p, dp, i)
       THEN LET r == dp_iteration(tasks_sorted, p, dp, choose, i)
            IN /\ dp' = r.dp
               /\ choose' = r.choose
               /\ IF i + 1 < Len(tasks_sorted)
                  THEN i' = i + 1 /\ pc' = "dp"
                  ELSE i' = Len(tasks_sorted) - 1 /\ pc' = "backtrack"
       ELSE /\ pc' = "IndexError"
            /\ UNCHANGED <<dp, choose, i>>
    /\ UNCHANGED <<tasks, tasks_sorted, p, selected, total_profit, app_vars>>

\* One iteration of "while i >= 0".
BacktrackStep ==
    /\ pc = "backtrack"
    /\ i >= 0
    /\ IF lookups_ok(p, dp, i)
       THEN LET r == backtrack_iteration(tasks_sorted, p, dp, selected, i)
            IN /\ selected' = r.selected
               /\ i' = r.i
               /\ pc' = "backtrack"
       ELSE /\ pc' = "IndexError"
            /\ UNCHANGED <<selected, i>>
    /\ UNCHANGED <<tasks, tasks_sorted, p, dp, choose, total_profit, app_vars>>

\* selected.reverse(); total_profit = dp[-1]; return
Return ==
    /\ pc = "backtrack"
    /\ i < 0
    /\ selected' = Reverse(selected)
    /\ total_profit' = PyGet(dp, 0 - 1)
    /\ pc' = "done"
    /\ UNCHANGED <<tasks, tasks_sorted, p, dp, choose, i, app_vars>>

Next == ReturnEmpty \/ Prepare \/ DPStep \/ BacktrackStep \/ Return

Spec == Init /\ [][Next]_vars

-----------------------------------------------------------------------------
(* A caller that schedules a collection twice, the second time with the    *)
(* same tasks in another order.  The scheduler keeps nothing between the   *)
(* calls: every local starts afresh.                                       *)

Permutations(n) == {f \in [1..n -> 1..n] : \A a, b \in 1..n : a # b => f[a] # f[b]}

InitOrder == InitCall(MaxShuffled)

CallAgain ==
    /\ pc = "done"
    /\ previous = <<>>
    /\ previous' = <<[tasks |-> tasks, selected |-> selected,
                      total_profit |-> total_profit]>>
    /\ \E f \in Permutations(Len(tasks)) :
          tasks' = [k \in 1..Len(tasks) |-> tasks[f[k]]]
    /\ pc' = "start"
    /\ tasks_sorted' = <<>>
    /\ p' = <<>>
    /\ dp' = <<>>
    /\ choose' = <<>>
    /\ i' = 0
    /\ selected' = <<>>
    /\ total_profit' = 0
    /\ UNCHANGED <<table, next_id, flash>>

NextOrder == Next \/ CallAgain

SpecOrder == InitOrder /\ [][NextOrder]_vars

-----------------------------------------------------------------------------
(* The tasks table and the request handlers.  Each action is one request;  *)
(* the list passed to the scheduler and the scheduler's results belong to  *)
(* the request that computed them, so every other request clears them.     *)

Ids == 1..MaxId

Row(id, start_time, end_time, profit) ==
    [id |-> id, start_time |-> start_time, end_time |-> end_time, profit |-> profit]

\* Mutant of form_rejected: an empty interval is accepted.
form_rejected_strict(start_time, end_time) == end_time < start_time

\* The form check of add_task and edit_task: the request is rejected when
\* end_time <= start_time.
form_rejected(start_time, end_time) == end_time <= start_time

InitApp ==
    /\ tasks = <<>>
    /\ pc = "serving"
    /\ tasks_sorted = <<>>
    /\ p = <<>>
    /\ dp = <<>>
    /\ choose = <<>>
    /\ i = 0
    /\ selected = <<>>
    /\ total_profit = 0
    /\ previous = <<>>
    /\ table = NoTable
    /\ next_id = 1
    /\ flash = "none"

no_schedule ==
    /\ tasks' = <<>>
    /\ selected' = <<>>
    /\ total_profit' = 0
    /\ UNCHANGED <<pc, tasks_sorted, p, dp, choose, i, previous>>

\* POST /tasks/add
add_task(start_time, end_time, profit) ==
    /\ IF form_rejected(start_time, end_time)
       THEN /\ flash' = "End time must be greater than start time."
            /\ UNCHANGED <<table, next_id>>
       ELSE /\ next_id <= MaxId
            /\ table' = [k \in DOMAIN table \cup {next_id} |->
                            IF k = next_id
                            THEN Row(next_id, start_time, end_time, profit)
                            ELSE table[k]]
            /\ next_id' = next_id + 1
            /\ flash' = "Task added successfully."
    /\ no_schedule

\* POST /tasks/edit/<task_id>
edit_task(task_id, start_time, end_time, profit) ==
    /\ IF task_id \notin DOMAIN table
       THEN /\ flash' = "Task not found."
            /\ UNCHANGED table
       ELSE IF form_rejected(start_time, end_time)
       THEN /\ flash' = "End time must be greater than start time."
            /\ UNCHANGED table
       ELSE /\ table' = [table EXCEPT ![task_id] =
                            Row(task_id, start_time, end_time, profit)]
            /\ flash' = "Task updated successfully."
    /\ UNCHANGED next_id
    /\ no_schedule

\* POST /tasks/delete/<task_id>
delete_task(task_id) ==
    /\ table' = [k \in DOMAIN table \ {task_id} |-> table[k]]
    /\ flash' = "Task deleted successfully."
    /\ UNCHANGED next_id
    /\ no_schedule

\* SELECT * FROM tasks ORDER BY end_time: the rows in some order of
\* ascending end_time (SQL leaves the order of equal end_times open).
rows_by_end_time ==
    {rows \in [1..Cardinality(DOMAIN table) -> {table[k] : k \in DOMAIN table}] :
        /\ \A a, b \in DOMAIN rows : a # b => rows[a].id # rows[b].id
        /\ \A a, b \in DOMAIN rows : a < b => rows[a].end_time <= rows[b].end_time}

\* GET /schedule
generate_schedule ==
    /\ \E rows \in rows_by_end_time :
          /\ tasks' = rows
          /\ LET r == weighted_interval_scheduling(rows)
             IN /\ selected' = r.selected
                /\ total_profit' = r.total_profit
    /\ flash' = "none"
    /\ UNCHANGED <<pc, tasks_sorted, p, dp, choose, i, previous, table, next_id>>

\* The profits a form submits: the handlers do not look at the profit, so
\* the two extreme values stand for all.
FormProfits == {0 - 1, MaxProfit}

NextApp ==
    \/ \E s \in Times, e \in Times, pr \in FormProfits : add_task(s, e, pr)
    \/ \E id \in Ids, s \in Times, e \in Times, pr \in FormProfits :
          edit_task(id, s, e, pr)
    \/ \E id \in Ids : delete_task(id)
    \/ generate_schedule

SpecApp == InitApp /\ [][NextApp]_vars

-----------------------------------------------------------------------------
(* Vocabulary of the properties. *)

Done == pc = "done"
N == Len(tasks)

\* Two tasks conflict when their intervals overlap; a task ending exactly
\* when the other starts does not conflict.
Conflict(a, b) == ~(a.end_time <= b.start_time \/ b.end_time <= a.start_time)

RECURSIVE SumProfit(_)
SumProfit(s) == IF s = <<>> THEN 0 ELSE Head(s).profit + SumProfit(Tail(s))

RECURSIVE SumProfitAt(_, _)
SumProfitAt(ts, S) ==
    IF S = {} THEN 0
    ELSE LET k == CHOOSE k \in S : TRUE
         IN ts[k].profit + SumProfitAt(ts, S \ {k})

\* The sets of list positions whose tasks are pairwise non-conflicting.
Compatible(ts) ==
    {S \in SUBSET DOMAIN ts : \A a, b \in S : a # b => ~Conflict(ts[a], ts[b])}

\* The best profit by exhaustive search (the empty set gives 0).
BestProfit(ts) ==
    LET sums == {SumProfitAt(ts, S) : S \in Compatible(ts)}
    IN CHOOSE m \in sums : \A x \in sums : x <= m

Range(s) == {s[k] : k \in DOMAIN s}

PairwiseCompatible(s) ==
    \A a, b \in DOMAIN s : a # b => ~Conflict(s[a], s[b])

\* C1: when the call has returned, total_profit is the maximum, over all
\* sets of pairwise non-conflicting input tasks (the empty set included),
\* of the sum of their profits.
C1_Optimal == Done => total_profit = BestProfit(tasks)

\* A returned call on three tasks, some of them conflicting, where the
\* optimum combines several tasks and leaves a profitable task out.
C1_Witness ==
    /\ Done
    /\ N >= 3
    /\ Len(selected) >= 2
    /\ \E k \in DOMAIN tasks : tasks[k].profit > 0 /\ tasks[k] \notin Range(selected)
    /\ \E a, b \in DOMAIN tasks : a # b /\ Conflict(tasks[a], tasks[b])

\* C2: when the call has returned, selected holds only input tasks, each
\* input element at most once, and no two selected tasks conflict.
C2_SelectedCompatible ==
    Done =>
        /\ Range(selected) \subseteq Range(tasks)
        /\ \A a, b \in DOMAIN selected : a # b => selected[a].id # selected[b].id
        /\ PairwiseCompatible(selected)

\* A returned call that selected two back-to-back tasks and left out a
\* task conflicting with them.
C2_Witness ==
    /\ Done
    /\ \E a, b \in DOMAIN selected : selected[a].end_time = selected[b].start_time
    /\ \E k \in DOMAIN tasks :
          /\ tasks[k] \notin Range(selected)
          /\ \E a \in DOMAIN selected : Conflict(tasks[k], selected[a])

\* C3: when the call has returned, total_profit (dp[n-1], or 0 for the
\* empty input) is the sum of the profits of the selected tasks.
C3_TotalIsSum ==
    Done =>
        /\ total_profit = SumProfit(selected)
        /\ total_profit = (IF tasks = <<>> THEN 0 ELSE dp[N])

\* A returned call with a positive total that selected several tasks and
\* left an input task out.
C3_Witness ==
    /\ Done
    /\ Len(selected) >= 2
    /\ Len(selected) < N
    /\ total_profit > 0

\* C5: when the call has returned, selected is in ascending end_time order
\* and in ascending start_time order.
C5_Ascending ==
    Done =>
        \A a, b \in DOMAIN selected :
            a < b => /\ selected[a].end_time <= selected[b].end_time
                     /\ selected[a].start_time <= selected[b].start_time

\* A returned call with two selected tasks whose input was not given in
\* end_time order.
C5_Witness ==
    /\ Done
    /\ Len(selected) >= 2
    /\ \E a, b \in DOMAIN tasks : a < b /\ tasks[a].end_time > tasks[b].end_time

\* C6: the call never raises IndexError, the loop index stays within the
\* lists (down to -1 when the backtracking loop ends), every iteration of
\* the backtracking loop strictly decreases i, and the empty input returns
\* ([], 0).
C6_NoErrorAndProgress ==
    /\ [](pc # "IndexError")
    /\ [](pc = "dp" => 0 <= i /\ i < N /\ lookups_ok(p, dp, i))
    /\ [](pc = "backtrack" => 0 - 1 <= i /\ i < N)
    /\ [](Done /\ tasks = <<>> => selected = <<>> /\ total_profit = 0)
    /\ [][pc = "backtrack" /\ i >= 0 => i' < i]_vars

\* A returned call on an input with a negative profit, a zero profit and a
\* duplicated task, whose backtracking loop ran.
C6_Witness ==
    /\ Done
    /\ \E k \in DOMAIN tasks : tasks[k].profit < 0
    /\ \E k \in DOMAIN tasks : tasks[k].profit = 0
    /\ \E a, b \in DOMAIN tasks :
          /\ a # b
          /\ tasks[a].start_time = tasks[b].start_time
          /\ tasks[a].end_time = tasks[b].end_time
          /\ tasks[a].profit = tasks[b].profit

\* The largest index j < k of the sorted list with end_time of j <=
\* start_time of k, or -1 (Python indices).
LastCompatible(ts, k) ==
    LET S == {j \in 0..(k - 1) : PyGet(ts, j).end_time <= PyGet(ts, k).start_time}
    IN IF S = {} THEN 0 - 1 ELSE CHOOSE j \in S : \A x \in S : x <= j

\* The state in which the loop building p has just finished (p is not
\* assigned afterwards).
Prepared == pc = "dp" /\ i = 0

\* C8: once p is built, for every index k of the sorted list p[k] is the
\* largest j < k whose end_time is <= the start_time of k, and -1 when
\* there is none; so -1 <= p[k] < k.
C8_Predecessor ==
    Prepared =>
        /\ Len(p) = N
        /\ \A k \in 0..(N - 1) :
              /\ PyGet(p, k) = LastCompatible(tasks_sorted, k)
              /\ 0 - 1 <= PyGet(p, k)
              /\ PyGet(p, k) < k

\* p is built for a list where two tasks share an end_time and a third
\* starts exactly when they end.
C8_Witness ==
    /\ Prepared
    /\ \E a, b, c \in 0..(N - 1) :
          /\ a < b /\ b < c
          /\ PyGet(tasks_sorted, a).end_time = PyGet(tasks_sorted, b).end_time
          /\ PyGet(tasks_sorted, b).end_time = PyGet(tasks_sorted, c).start_time
          /\ PyGet(p, c) = b

\* The walk over the decisions the DP loop recorded: from index k, take
\* task k and go to p[k] when choose[k], else go to k - 1.
RECURSIVE ChosenWalk(_, _, _, _)
ChosenWalk(ts, pp, ch, k) ==
    IF k < 0 THEN <<>>
    ELSE IF PyGet(ch, k)
         THEN Append(ChosenWalk(ts, pp, ch, PyGet(pp, k)), PyGet(ts, k))
         ELSE ChosenWalk(ts, pp, ch, k - 1)

\* C9: at every index the backtracking loop visits, its recomputed
\* comparison agrees with choose[i], and the returned selected is the walk
\* over the recorded decisions from n - 1.
C9_BacktrackFollowsChoose ==
    /\ pc = "backtrack" /\ i >= 0 =>
          backtrack_include_wins(tasks_sorted, p, dp, i) = PyGet(choose, i)
    /\ Done /\ tasks # <<>> =>
          selected = ChosenWalk(tasks_sorted, p, choose, N - 1)

\* The backtracking loop is at an index where include and exclude tie.
C9_Witness ==
    /\ pc = "backtrack"
    /\ i >= 1
    /\ include_profit(tasks_sorted, p, dp, i) = exclude_profit(dp, i)
    /\ exclude_profit(dp, i) > 0
    /\ selected # <<>>

\* The number of dp entries the DP loop has assigned.
Filled == IF pc = "dp" THEN i ELSE Len(dp)

\* C10: the assigned part of dp is non-negative and non-decreasing, every
\* selected task has a strictly positive profit, and an input without a
\* positive profit returns ([], 0).
C10_PositiveSelection ==
    /\ \A k \in 1..Filled : dp[k] >= 0 /\ (k > 1 => dp[k - 1] <= dp[k])
    /\ \A k \in DOMAIN selected : selected[k].profit > 0
    /\ Done /\ (\A k \in DOMAIN tasks : tasks[k].profit <= 0) =>
          selected = <<>> /\ total_profit = 0

\* A returned call that selected a task and left out a compatible task of
\* profit zero and a compatible task of negative profit.
C10_Witness ==
    /\ Done
    /\ selected # <<>>
    /\ \E k \in DOMAIN tasks :
          tasks[k].profit = 0 /\ PairwiseCompatible(Append(selected, tasks[k]))
    /\ \E k \in DOMAIN tasks :
          tasks[k].profit < 0 /\ PairwiseCompatible(Append(selected, tasks[k]))

\* The second of the caller's two calls has returned.
BothDone == Done /\ previous # <<>>

DistinctEndTimes(ts) ==
    \A a, b \in DOMAIN ts : a # b => ts[a].end_time # ts[b].end_time

\* C4 as stated: two calls on permutations of the same tasks return the
\* same selected subset and the same total_profit.
C4_SameSelection ==
    BothDone =>
        /\ total_profit = previous[1].total_profit
        /\ Range(selected) = Range(previous[1].selected)

\* C4 amended: two calls on permutations of the same tasks return the same
\* total_profit, and the same selected list when no two tasks share an
\* end_time.
C4_SameTotal ==
    BothDone =>
        /\ total_profit = previous[1].total_profit
        /\ DistinctEndTimes(tasks) => selected = previous[1].selected

\* Both calls have returned, the second on a reordered list, with tasks
\* sharing an end_time and with different selected subsets.
C4_Witness ==
    /\ BothDone
    /\ tasks # previous[1].tasks
    /\ ~DistinctEndTimes(tasks)
    /\ Range(selected) # Range(previous[1].selected)
    /\ total_profit > 0

\* Both calls have returned, the second on a reordered list of tasks with
\* distinct end_times, and tasks were selected.
C4_WitnessDistinct ==
    /\ BothDone
    /\ tasks # previous[1].tasks
    /\ DistinctEndTimes(tasks)
    /\ selected # <<>>

ValidTask(t) == t.end_time > t.start_time

\* C7: every stored task has end_time > start_time, every list passed to
\* the scheduler holds only such tasks, and a request rejected for
\* end_time <= start_time leaves the table unchanged.
C7_OnlyValidIntervals ==
    /\ [](\A k \in DOMAIN table : ValidTask(table[k]))
    /\ [](\A k \in DOMAIN tasks : ValidTask(tasks[k]))
    /\ [][flash' = "End time must be greater than start time."
            => table' = table /\ next_id' = next_id]_vars

\* A request was rejected while the table held a task.
C7_Witness ==
    /\ flash = "End time must be greater than start time."
    /\ DOMAIN table # {}

\* A schedule was generated from a table of several tasks.
C7_ScheduleReached ==
    /\ Len(tasks) >= 2
    /\ selected # <<>>

=============================================================================
